---- MODULE Spec2Model ----
(***************************************************************************)
(* Field resolution of the checkout GraphQL types                          *)
(* (saleor/graphql/checkout/types.py) and the confirmEmailChange mutation  *)
(* exercised by test_confirm_email_change.py.                              *)
(*                                                                         *)
(* Three specifications share the module:                                  *)
(*   Spec         one field of one object is resolved; the dataloader      *)
(*                batch completes within the resolver's step, so the value *)
(*                each resolver computes is what is observed;              *)
(*   SpecPromise  the price resolvers step by step: the decorator's guard, *)
(*                the loads, their completion in any order, Promise.all    *)
(*                and the callbacks chained with then;                     *)
(*   SpecAccount  the confirmEmailChange mutation on the user table.       *)
(* Money is an integer amount of minor units in the checkout's currency;   *)
(* TaxedMoney is a record [net, gross].                                    *)
(***************************************************************************)
EXTENDS Integers, Sequences, FiniteSets, TLC

VARIABLES
    field,      \* the field being resolved
    root,       \* the object the field is resolved on (checkout, line, delivery method)
    context,    \* info.context: the requestor's permissions and the sync_event mark
    db,         \* what the dataloaders return for this request
    result,     \* what the resolver returned (or raised)
    loads,      \* Spec: the loads the resolver issued, <<loader, key>>
    stage,      \* SpecPromise: where the resolver's promise chain stands
    promises,   \* SpecPromise: state of each load's promise
    completed,  \* SpecPromise: the loads in the order they completed
    calls,      \* SpecPromise: callbacks invoked so far, with the data they got
    syncCalls,  \* SpecPromise: synchronous tax-provider calls started
    users,      \* SpecAccount: the user table
    token,      \* SpecAccount: the token of the request
    response,   \* SpecAccount: the mutation's payload
    sideCalls   \* SpecAccount: calls of assign_user_gift_cards / match_orders_with_new_user

fieldVars   == <<field, root, context, db, result, loads>>
promiseVars == <<stage, promises, completed, calls, syncCalls>>
accountVars == <<users, token, response, sideCalls>>
vars == <<field, root, context, db, result, loads, stage, promises, completed,
          calls, syncCalls, users, token, response, sideCalls>>

\* ---------------------------------------------------------------- bounds
MaxLines        == 2
MaxQuantity     == 2
MaxTransactions == 2
MaxAmount       == 1
MaxReservations == 2
MaxTime         == 3

\* ---------------------------------------------------------------- values
CheckoutIds == {1, 2}

MANAGE_CHECKOUTS == "MANAGE_CHECKOUTS"
HANDLE_PAYMENTS  == "HANDLE_PAYMENTS"
MANAGE_USERS     == "MANAGE_USERS"
Permissions == {MANAGE_CHECKOUTS, HANDLE_PAYMENTS, MANAGE_USERS}

\* Python's None, and the three ways a resolver ends.
PyNone         == [kind |-> "none"]
Value(v)       == [kind |-> "value", value |-> v]
Raised(e)      == [kind |-> "error", error |-> e]
Unresolved     == [kind |-> "unresolved"]

zero_money == 0
zero_taxed_money == [net |-> 0, gross |-> 0]
TaxedMoney(net, gross) == [net |-> net, gross |-> gross]

SeqsUpTo(S, n) == UNION {[1..k -> S] : k \in 0..n}

\* ------------------------------------------------------------- the data
CheckoutLineRow == [quantity : 0..MaxQuantity]
TransactionRow  == [checkout_id : CheckoutIds,
                    amount_charged : 0..MaxAmount,
                    amount_charge_pending : 0..MaxAmount]
ReservationRow  == [reserved_until : 1..MaxTime]

NoDelivery == [type |-> "None"]
DeliveryMethods ==
    {NoDelivery, [type |-> "Warehouse"]}
        \cup {[type |-> "ShippingMethodData", price |-> p] : p \in 0..MaxAmount}

DefaultCheckoutInfo ==
    [delivery_method |-> NoDelivery, shipping_tax |-> 0,
     subtotal |-> zero_taxed_money, taxed_total |-> zero_taxed_money]

DefaultDb ==
    [lines |-> <<>>, transactions |-> <<>>, reservations |-> <<>>,
     reservation_enabled |-> FALSE, checkout_info |-> DefaultCheckoutInfo]

DefaultRoot ==
    [type |-> "Checkout", pk |-> 1, token |-> 1,
     shipping_address_id |-> 0, billing_address_id |-> 0]

DefaultContext == [perms |-> {}, sync_event |-> FALSE]

\* ---------------------------------------------------------- dataloaders
\* Each loader returns the rows the request's database holds for its key.
CheckoutLinesInfoByCheckoutTokenLoader(d, tok) == d.lines
CheckoutInfoByCheckoutTokenLoader(d, tok) == d.checkout_info
StocksReservationsByCheckoutTokenLoader(d, tok) == d.reservations
TransactionItemsByCheckoutIDLoader(d, pk) ==
    SelectSeq(d.transactions, LAMBDA t : t.checkout_id = pk)
AddressByIdLoader(d, id) == [address_id |-> id]
get_plugin_manager_promise(ctx) == [manager |-> "PluginsManager"]

\* get_dataloaders_for_fetching_checkout_data: the address of the checkout
\* (shipping first, billing otherwise; None with neither), the lines, the
\* checkout info and the plugin manager, in this order.
AddressId(r) ==
    IF r.shipping_address_id # 0 THEN r.shipping_address_id ELSE r.billing_address_id

get_dataloaders_for_fetching_checkout_data(r, ctx, d) ==
    << IF AddressId(r) # 0 THEN AddressByIdLoader(d, AddressId(r)) ELSE PyNone,
       CheckoutLinesInfoByCheckoutTokenLoader(d, r.token),
       CheckoutInfoByCheckoutTokenLoader(d, r.token),
       get_plugin_manager_promise(ctx) >>

\* ----------------------------------------------- the calculation engine
\* saleor.checkout.calculations: what the engine answers for a checkout.
calculate_checkout_total_with_gift_cards(manager, checkout_info, lines, address) ==
    checkout_info.taxed_total

checkout_subtotal(manager, checkout_info, lines, address) ==
    checkout_info.subtotal

checkout_shipping_price(manager, checkout_info, lines, address) ==
    LET dm == checkout_info.delivery_method
    IN  IF dm.type = "ShippingMethodData"
        THEN TaxedMoney(dm.price, dm.price + dm.price * checkout_info.shipping_tax)
        ELSE zero_taxed_money

\* ------------------------------------------------------------ decorators
\* prevent_sync_event_circular_query raises when the request serves a
\* synchronous event.
prevent_sync_event_circular_query(ctx) == ctx.sync_event

\* one_of_permissions_required lets the requestor through with any one of perms.
one_of_permissions_required(perms, ctx) == (ctx.perms \cap perms) # {}

is_reservation_enabled(d) == d.reservation_enabled

\* -------------------------------------------------------------- Python
RECURSIVE PySum(_)
PySum(xs) == IF xs = <<>> THEN 0 ELSE Head(xs) + PySum(Tail(xs))

RECURSIVE PyMin(_)
PyMin(xs) ==
    IF Len(xs) = 1 THEN Head(xs)
    ELSE LET m == PyMin(Tail(xs)) IN IF m < Head(xs) THEN m ELSE Head(xs)

\* max(a, b) on TaxedMoney: b only when a < b, and TaxedMoney orders by gross.
PyMaxTaxed(a, b) == IF a.gross < b.gross THEN b ELSE a

\* ------------------------------------------------------------ callbacks
\* Checkout.resolve_quantity.calculate_quantity
calculate_quantity_lines(lines) == Len(lines)

calculate_quantity(lines) ==
    PySum([i \in 1..Len(lines) |-> lines[i].quantity])

\* Checkout.resolve_shipping_price.calculate_shipping_price
calculate_shipping_price_subtotal(data) ==
    checkout_subtotal(data[4], data[3], data[2], data[1])

calculate_shipping_price(data) ==
    checkout_shipping_price(data[4], data[3], data[2], data[1])

\* Checkout.resolve_total_balance: the loop over the transactions.
RECURSIVE TotalCharged(_, _)
TotalCharged(transactions, total_charged) ==
    IF transactions = <<>> THEN total_charged
    ELSE TotalCharged(Tail(transactions),
                      total_charged + Head(transactions).amount_charged
                                    + Head(transactions).amount_charge_pending)

RECURSIVE TotalChargedNoPending(_, _)
TotalChargedNoPending(transactions, total_charged) ==
    IF transactions = <<>> THEN total_charged
    ELSE TotalChargedNoPending(Tail(transactions),
                               total_charged + Head(transactions).amount_charged)

calculate_total_balance_no_pending(data) ==
    LET taxed_total == calculate_checkout_total_with_gift_cards(
                           data[4], data[3], data[2], data[1])
        checkout_total == PyMaxTaxed(taxed_total, zero_taxed_money)
    IN  TotalChargedNoPending(data[5], zero_money) - checkout_total.gross

_calculate_total_balance_for_transactions(data) ==
    LET taxed_total == calculate_checkout_total_with_gift_cards(
                           data[4], data[3], data[2], data[1])
        checkout_total == PyMaxTaxed(taxed_total, zero_taxed_money)
    IN  TotalCharged(data[5], zero_money) - checkout_total.gross

\* Checkout.resolve_stock_reservation_expires
oldest_reservation_newest(reservations) ==
    IF reservations = <<>> THEN PyNone
    ELSE Value(-PyMin([i \in 1..Len(reservations) |-> -reservations[i].reserved_until]))

get_oldest_stock_reservation_expiration_date(reservations) ==
    IF reservations = <<>> THEN PyNone
    ELSE Value(PyMin([i \in 1..Len(reservations) |-> reservations[i].reserved_until]))

\* The permissions Checkout.resolve_transactions asks for.
OnlyManageCheckouts == {MANAGE_CHECKOUTS}
TransactionsPermissions == {MANAGE_CHECKOUTS, HANDLE_PAYMENTS}

\* DeliveryMethod.resolve_type
resolve_type_swapped(instance) ==
    IF instance.type = "ShippingMethodData" THEN Value("Warehouse")
    ELSE IF instance.type = "warehouse_models.Warehouse" THEN Value("ShippingMethod")
    ELSE PyNone

DeliveryMethod_resolve_type(instance) ==
    IF instance.type = "ShippingMethodData" THEN Value("ShippingMethod")
    ELSE IF instance.type = "warehouse_models.Warehouse" THEN Value("Warehouse")
    ELSE PyNone   \* graphene.Union.resolve_type: no ObjectType instance, no type

\* ------------------------------------------------- Spec: the resolvers
PromiseIdle ==
    /\ stage = "idle"
    /\ promises = << >>
    /\ completed = << >>
    /\ calls = << >>
    /\ syncCalls = 0

AccountIdle ==
    /\ users = << >>
    /\ token = [valid |-> FALSE]
    /\ response = Unresolved
    /\ sideCalls = << >>

TaxedTotals ==
    {TaxedMoney(g - t, g) : g \in (0 - MaxAmount)..MaxAmount, t \in 0..1}

CheckoutInfos ==
    [delivery_method : DeliveryMethods, shipping_tax : 0..1,
     subtotal : {TaxedMoney(n, n) : n \in 0..MaxAmount},
     taxed_total : {zero_taxed_money}]

DeliveryInstances ==
    {[DefaultRoot EXCEPT !.type = t] :
        t \in {"ShippingMethodData", "warehouse_models.Warehouse", "Other"}}

Init ==
    /\ result = Unresolved
    /\ loads = {}
    /\ PromiseIdle
    /\ AccountIdle
    /\ \/ /\ field = "Checkout.quantity"
          /\ root = DefaultRoot
          /\ context = DefaultContext
          /\ db \in {[DefaultDb EXCEPT !.lines = l] :
                        l \in SeqsUpTo(CheckoutLineRow, MaxLines)}
       \/ /\ field = "Checkout.total_balance"
          /\ root = DefaultRoot
          /\ context \in {[DefaultContext EXCEPT !.sync_event = b] : b \in BOOLEAN}
          /\ db \in {[DefaultDb EXCEPT !.transactions = t,
                                       !.checkout_info.taxed_total = m] :
                        t \in SeqsUpTo(TransactionRow, MaxTransactions),
                        m \in TaxedTotals}
       \/ /\ field = "Checkout.shipping_price"
          /\ root = DefaultRoot
          /\ context \in {[DefaultContext EXCEPT !.sync_event = b] : b \in BOOLEAN}
          /\ db \in {[DefaultDb EXCEPT !.checkout_info = c] : c \in CheckoutInfos}
       \/ /\ field = "Checkout.stock_reservation_expires"
          /\ root = DefaultRoot
          /\ context = DefaultContext
          /\ db \in {[DefaultDb EXCEPT !.reservations = r, !.reservation_enabled = e] :
                        r \in SeqsUpTo(ReservationRow, MaxReservations),
                        e \in BOOLEAN}
       \/ /\ field = "Checkout.transactions"
          /\ root \in {[DefaultRoot EXCEPT !.pk = k, !.token = k] : k \in CheckoutIds}
          /\ context \in {[DefaultContext EXCEPT !.perms = ps] : ps \in SUBSET Permissions}
          /\ db \in {[DefaultDb EXCEPT !.transactions = t] :
                        t \in SeqsUpTo(TransactionRow, MaxTransactions)}
       \/ /\ field = "DeliveryMethod.resolve_type"
          /\ root \in DeliveryInstances
          /\ context = DefaultContext
          /\ db = DefaultDb

Load(loader, key) == loads' = loads \cup {<<loader, key>>}

resolve_quantity ==
    /\ field = "Checkout.quantity" /\ result = Unresolved
    /\ Load("CheckoutLinesInfoByCheckoutTokenLoader", root.token)
    /\ result' = Value(calculate_quantity(
                          CheckoutLinesInfoByCheckoutTokenLoader(db, root.token)))
    /\ UNCHANGED <<field, root, context, db>>
    /\ UNCHANGED promiseVars /\ UNCHANGED accountVars

resolve_shipping_price ==
    /\ field = "Checkout.shipping_price" /\ result = Unresolved
    /\ IF prevent_sync_event_circular_query(context)
       THEN /\ result' = Raised("CircularSubscriptionSyncEvent")
            /\ UNCHANGED loads
       ELSE /\ loads' = loads \cup
                   {<<"CheckoutLinesInfoByCheckoutTokenLoader", root.token>>,
                    <<"CheckoutInfoByCheckoutTokenLoader", root.token>>}
            /\ result' = Value(calculate_shipping_price(
                                  get_dataloaders_for_fetching_checkout_data(
                                      root, context, db)))
    /\ UNCHANGED <<field, root, context, db>>
    /\ UNCHANGED promiseVars /\ UNCHANGED accountVars

resolve_total_balance ==
    /\ field = "Checkout.total_balance" /\ result = Unresolved
    /\ loads' = loads \cup
           {<<"CheckoutLinesInfoByCheckoutTokenLoader", root.token>>,
            <<"CheckoutInfoByCheckoutTokenLoader", root.token>>,
            <<"TransactionItemsByCheckoutIDLoader", root.pk>>}
    /\ result' = Value(_calculate_total_balance_for_transactions(
                          Append(get_dataloaders_for_fetching_checkout_data(
                                     root, context, db),
                                 TransactionItemsByCheckoutIDLoader(db, root.pk))))
    /\ UNCHANGED <<field, root, context, db>>
    /\ UNCHANGED promiseVars /\ UNCHANGED accountVars

resolve_stock_reservation_expires ==
    /\ field = "Checkout.stock_reservation_expires" /\ result = Unresolved
    /\ IF ~is_reservation_enabled(db)
       THEN /\ result' = PyNone
            /\ UNCHANGED loads
       ELSE /\ Load("StocksReservationsByCheckoutTokenLoader", root.token)
            /\ result' = get_oldest_stock_reservation_expiration_date(
                            StocksReservationsByCheckoutTokenLoader(db, root.token))
    /\ UNCHANGED <<field, root, context, db>>
    /\ UNCHANGED promiseVars /\ UNCHANGED accountVars

resolve_transactions ==
    /\ field = "Checkout.transactions" /\ result = Unresolved
    /\ IF ~one_of_permissions_required(TransactionsPermissions, context)
       THEN /\ result' = Raised("PermissionDenied")
            /\ UNCHANGED loads
       ELSE /\ Load("TransactionItemsByCheckoutIDLoader", root.pk)
            /\ result' = Value(TransactionItemsByCheckoutIDLoader(db, root.pk))
    /\ UNCHANGED <<field, root, context, db>>
    /\ UNCHANGED promiseVars /\ UNCHANGED accountVars

resolve_type ==
    /\ field = "DeliveryMethod.resolve_type" /\ result = Unresolved
    /\ result' = DeliveryMethod_resolve_type(root)
    /\ UNCHANGED <<field, root, context, db, loads>>
    /\ UNCHANGED promiseVars /\ UNCHANGED accountVars

Next ==
    \/ resolve_quantity
    \/ resolve_shipping_price
    \/ resolve_total_balance
    \/ resolve_stock_reservation_expires
    \/ resolve_transactions
    \/ resolve_type

Spec == Init /\ [][Next]_vars

\* ------------------------------------------------- properties of Spec
Resolved(f) == field = f /\ result # Unresolved

\* The rows of the transaction table that belong to checkout pk.
OwnTransactions(pk) ==
    {i \in 1..Len(db.transactions) : db.transactions[i].checkout_id = pk}

RECURSIVE PaidOver(_)
PaidOver(I) ==
    IF I = {} THEN 0
    ELSE LET i == CHOOSE j \in I : TRUE
         IN  db.transactions[i].amount_charged
               + db.transactions[i].amount_charge_pending + PaidOver(I \ {i})

ClampedGross == 
    IF db.checkout_info.taxed_total.gross < 0 THEN 0
    ELSE db.checkout_info.taxed_total.gross

\* C4: Checkout.total_balance is the sum over the checkout's transactions of
\* amount_charged + amount_charge_pending, minus the gross of the checkout
\* total clamped to be at least zero; with no transactions it is minus the
\* clamped gross total.
C4_TotalBalance ==
    Resolved("Checkout.total_balance") =>
        /\ result.kind = "value"
        /\ result.value = PaidOver(OwnTransactions(root.pk)) - ClampedGross
        /\ OwnTransactions(root.pk) = {} => result.value = 0 - ClampedGross

C4_Witness ==
    /\ Resolved("Checkout.total_balance")
    /\ db.checkout_info.taxed_total.gross < 0
    /\ \E i \in OwnTransactions(root.pk) : db.transactions[i].amount_charge_pending > 0
    /\ \E i \in 1..Len(db.transactions) : i \notin OwnTransactions(root.pk)
    /\ result.value > 0

\* C5: Checkout.shipping_price, when the resolver answers, is the shipping
\* price with the taxes included in its gross (gross = net + the tax on the
\* net), and it is zero when no delivery method is selected.
C5_ShippingPrice ==
    (Resolved("Checkout.shipping_price") /\ result.kind = "value") =>
        LET dm == db.checkout_info.delivery_method
        IN  /\ dm.type = "None" => result.value = TaxedMoney(0, 0)
            /\ dm.type = "ShippingMethodData" =>
                 /\ result.value.net = dm.price
                 /\ result.value.gross =
                        dm.price + dm.price * db.checkout_info.shipping_tax

C5_Witness ==
    /\ Resolved("Checkout.shipping_price")
    /\ db.checkout_info.delivery_method.type = "None"
    /\ db.checkout_info.subtotal.gross > 0
    /\ result = Value(TaxedMoney(0, 0))

\* C6: Checkout.stock_reservation_expires is null when reservations are
\* disabled in the site settings or the checkout has no reservation, and
\* otherwise the minimum reserved_until over the checkout's reservations.
C6_StockReservationExpires ==
    Resolved("Checkout.stock_reservation_expires") =>
        IF ~db.reservation_enabled \/ db.reservations = << >>
        THEN result = PyNone
        ELSE /\ result.kind = "value"
             /\ \E i \in 1..Len(db.reservations) :
                    db.reservations[i].reserved_until = result.value
             /\ \A i \in 1..Len(db.reservations) :
                    result.value <= db.reservations[i].reserved_until

C6_Witness ==
    /\ Resolved("Checkout.stock_reservation_expires")
    /\ db.reservation_enabled
    /\ Len(db.reservations) = 2
    /\ db.reservations[2].reserved_until < db.reservations[1].reserved_until
    /\ result = Value(db.reservations[2].reserved_until)

\* C7: Checkout.transactions: a requestor with neither MANAGE_CHECKOUTS nor
\* HANDLE_PAYMENTS gets an error and no transaction load is issued; a
\* requestor with at least one gets the transactions of exactly this checkout.
C7_TransactionsPermission ==
    Resolved("Checkout.transactions") =>
        IF context.perms \cap {"MANAGE_CHECKOUTS", "HANDLE_PAYMENTS"} = {}
        THEN /\ result.kind = "error"
             /\ ~\E l \in loads : l[1] = "TransactionItemsByCheckoutIDLoader"
        ELSE /\ result.kind = "value"
             /\ \A i \in 1..Len(result.value) : result.value[i].checkout_id = root.pk
             /\ \A r \in TransactionRow :
                    r.checkout_id = root.pk =>
                        Cardinality({i \in 1..Len(result.value) : result.value[i] = r})
                          = Cardinality({i \in 1..Len(db.transactions) :
                                            db.transactions[i] = r})

C7_Witness ==
    /\ Resolved("Checkout.transactions")
    /\ context.perms = {"HANDLE_PAYMENTS"}
    /\ Len(db.transactions) = 2
    /\ db.transactions[1].checkout_id # root.pk
    /\ db.transactions[2].checkout_id = root.pk
    /\ result = Value(<<db.transactions[2]>>)

\* C8: DeliveryMethod.resolve_type answers ShippingMethod for a
\* ShippingMethodData instance and Warehouse for a Warehouse model instance,
\* never the other way round.
C8_DeliveryMethodType ==
    Resolved("DeliveryMethod.resolve_type") =>
        /\ root.type = "ShippingMethodData" => result = Value("ShippingMethod")
        /\ root.type = "warehouse_models.Warehouse" => result = Value("Warehouse")

C8_Witness ==
    /\ Resolved("DeliveryMethod.resolve_type")
    /\ root.type = "warehouse_models.Warehouse"
    /\ result = Value("Warehouse")

\* C9: Checkout.quantity is the number of items purchased: the sum of
\* line.quantity over the checkout's lines, and 0 with no lines.
C9_Quantity ==
    Resolved("Checkout.quantity") =>
        /\ result.kind = "value"
        /\ result.value =
             Cardinality({p \in (1..Len(db.lines)) \X (1..(MaxQuantity + 1)) :
                             p[2] <= db.lines[p[1]].quantity})
        /\ db.lines = << >> => result.value = 0

C9_Witness ==
    /\ Resolved("Checkout.quantity")
    /\ Len(db.lines) = 2
    /\ db.lines[1].quantity = 1
    /\ db.lines[2].quantity = 2
    /\ result = Value(3)

\* ------------------------------------ SpecPromise: the price resolvers
CheckoutPriceFields ==
    {"Checkout.total_price", "Checkout.subtotal_price", "Checkout.shipping_price"}
CheckoutTransactionFields ==
    {"Checkout.total_balance", "Checkout.authorize_status", "Checkout.charge_status"}
LinePriceFields == {"CheckoutLine.unit_price", "CheckoutLine.total_price"}
LineUndiscountedFields ==
    {"CheckoutLine.undiscounted_unit_price", "CheckoutLine.undiscounted_total_price"}
LineFields == LinePriceFields \cup LineUndiscountedFields
PromiseFields ==
    CheckoutPriceFields \cup CheckoutTransactionFields \cup LineFields

LoadNames ==
    {"checkout", "address", "lines", "checkout_info", "manager", "transactions"}

\* The resolvers that carry @prevent_sync_event_circular_query.
Guarded == CheckoutPriceFields \cup LinePriceFields

\* The resolvers whose callback hands the plugin manager to the engine
\* (manager=manager in the call of calculations.* / fetch_checkout_data).
PassesManager ==
    CheckoutPriceFields \cup CheckoutTransactionFields \cup LinePriceFields

\* What the resolver waits for first: the list given to Promise.all (a
\* single load for the undiscounted line prices). "None" stands for the
\* address of a checkout without one: a plain value, not a promise.
FirstLoadsSwapped(f, r) ==
    IF f \in LinePriceFields THEN <<"checkout", "manager">>
    ELSE IF f \in LineUndiscountedFields THEN <<"checkout">>
    ELSE LET dataloaders ==
                 << IF AddressId(r) # 0 THEN "address" ELSE "None",
                    "checkout_info", "lines", "manager" >>
         IN  IF f \in CheckoutTransactionFields
             THEN Append(dataloaders, "transactions")
             ELSE dataloaders

FirstLoads(f, r) ==
    IF f \in LinePriceFields THEN <<"checkout", "manager">>
    ELSE IF f \in LineUndiscountedFields THEN <<"checkout">>
    ELSE LET dataloaders ==
                 << IF AddressId(r) # 0 THEN "address" ELSE "None",
                    "lines", "checkout_info", "manager" >>
         IN  IF f \in CheckoutTransactionFields
             THEN Append(dataloaders, "transactions")
             ELSE dataloaders

\* What with_checkout waits for: Promise.all([checkout_info, lines]).
SecondLoads(f) ==
    IF f \in LineFields THEN <<"checkout_info", "lines">> ELSE << >>

Members(deps) == {deps[i] : i \in 1..Len(deps)}

\* Promise.all is fulfilled when every promise of the list is; a plain value
\* counts as fulfilled.
AllFulfilled(deps) ==
    \A l \in Members(deps) :
        IF l = "None" THEN TRUE ELSE promises[l] = "fulfilled"

\* Promise.all hands the values over in the order of the list, whatever the
\* order in which the promises were fulfilled.
PromiseAll(deps, done) == [i \in 1..Len(deps) |-> deps[i]]

Issue(deps) ==
    promises' = [l \in LoadNames |->
                    IF l \in Members(deps) /\ promises[l] = "unissued"
                    THEN "pending" ELSE promises[l]]

InitPromise ==
    /\ field \in PromiseFields
    /\ root \in {[DefaultRoot EXCEPT !.type = IF field \in LineFields
                                               THEN "CheckoutLine" ELSE "Checkout",
                                     !.shipping_address_id = s,
                                     !.billing_address_id = b] :
                    s \in {0, 1}, b \in {0, 2}}
    /\ context \in {[DefaultContext EXCEPT !.sync_event = b] : b \in BOOLEAN}
    /\ db = DefaultDb
    /\ result = Unresolved
    /\ loads = {}
    /\ stage = "idle"
    /\ promises = [l \in LoadNames |-> "unissued"]
    /\ completed = << >>
    /\ calls = << >>
    /\ syncCalls = 0
    /\ AccountIdle

\* The resolver is called: the decorator's check, then the loads.
StartResolve ==
    /\ stage = "idle"
    /\ IF field \in Guarded /\ prevent_sync_event_circular_query(context)
       THEN /\ stage' = "raised"
            /\ result' = Raised("CircularSubscriptionSyncEvent")
            /\ UNCHANGED promises
       ELSE /\ stage' = "first"
            /\ Issue(FirstLoads(field, root))
            /\ UNCHANGED result
    /\ UNCHANGED <<field, root, context, db, loads, completed, calls, syncCalls>>
    /\ UNCHANGED accountVars

\* A dataloader's batch delivers one load.
LoadCompletes(l) ==
    /\ promises[l] = "pending"
    /\ promises' = [promises EXCEPT ![l] = "fulfilled"]
    /\ completed' = Append(completed, l)
    /\ UNCHANGED <<field, root, context, db, result, loads, stage, calls, syncCalls>>
    /\ UNCHANGED accountVars

WaitedFor ==
    IF stage = "first" THEN Members(FirstLoads(field, root))
    ELSE IF stage = "second" THEN Members(SecondLoads(field))
    ELSE {}

\* A load fails: the Promise.all that waits for it is rejected and its
\* callback never runs.
LoadFails(l) ==
    /\ promises[l] = "pending"
    /\ promises' = [promises EXCEPT ![l] = "rejected"]
    /\ IF l \in WaitedFor
       THEN stage' = "rejected" /\ result' = Raised("LoadFailed")
       ELSE UNCHANGED <<stage, result>>
    /\ UNCHANGED <<field, root, context, db, loads, completed, calls, syncCalls>>
    /\ UNCHANGED accountVars

\* The engine is called with the manager: it may ask the tax provider
\* synchronously.
EngineCall(f) ==
    \E tax \in BOOLEAN :
        syncCalls' = syncCalls + (IF tax /\ f \in PassesManager THEN 1 ELSE 0)

Call(fn, data, manager) == [fn |-> fn, data |-> data, manager |-> manager]

\* The callback chained to the first Promise.all: the calculation for the
\* checkout's fields, with_checkout for the line's.
ThenFirst ==
    /\ stage = "first"
    /\ AllFulfilled(FirstLoads(field, root))
    /\ LET data == PromiseAll(FirstLoads(field, root), completed)
       IN  IF field \in LineFields
           THEN /\ calls' = Append(calls, Call("with_checkout", data, "-"))
                /\ Issue(SecondLoads(field))
                /\ stage' = "second"
                /\ UNCHANGED <<result, syncCalls>>
           ELSE /\ calls' = Append(calls, Call("calculate", data, data[4]))
                /\ EngineCall(field)
                /\ stage' = "done"
                /\ result' = Value(field)
                /\ UNCHANGED promises
    /\ UNCHANGED <<field, root, context, db, loads, completed>>
    /\ UNCHANGED accountVars

\* The callback chained to Promise.all([checkout_info, lines]) of a line:
\* the engine is called for the line_info of this line, None without one.
ThenSecond ==
    /\ stage = "second"
    /\ AllFulfilled(SecondLoads(field))
    /\ LET data == PromiseAll(SecondLoads(field), completed)
           manager == IF field \in LinePriceFields THEN calls[1].data[2] ELSE "-"
       IN  /\ calls' = Append(calls, Call("calculate", data, manager))
           /\ \E found \in BOOLEAN :
                IF found
                THEN EngineCall(field) /\ result' = Value(field)
                ELSE result' = PyNone /\ UNCHANGED syncCalls
    /\ stage' = "done"
    /\ UNCHANGED <<field, root, context, db, loads, promises, completed>>
    /\ UNCHANGED accountVars

NextPromise ==
    \/ StartResolve
    \/ \E l \in LoadNames : LoadCompletes(l)
    \/ \E l \in LoadNames : LoadFails(l)
    \/ ThenFirst
    \/ ThenSecond

SpecPromise == InitPromise /\ [][NextPromise]_vars

\* ------------------------------------------ properties of SpecPromise
\* C1: while the request serves a synchronous event, resolving a field whose
\* computation hands the plugin manager to the engine never starts a
\* synchronous tax-provider call (every such resolver is guarded by
\* prevent_sync_event_circular_query).
C1_NoSyncCallInSyncEvent ==
    (field \in PassesManager /\ context.sync_event) => syncCalls = 0

CalculateCalls == {i \in 1..Len(calls) : calls[i].fn = "calculate"}

HasAddress == root.shipping_address_id # 0 \/ root.billing_address_id # 0

CheckoutOrder ==
    << IF HasAddress THEN "address" ELSE "None", "lines", "checkout_info", "manager" >>
        \o (IF field \in CheckoutTransactionFields THEN <<"transactions">> ELSE << >>)

CalculationNeeds ==
    {"lines", "checkout_info", "manager"}
        \cup (IF field \in LinePriceFields THEN {"checkout"} ELSE {})
        \cup (IF field \notin LinePriceFields /\ HasAddress THEN {"address"} ELSE {})
        \cup (IF field \in CheckoutTransactionFields THEN {"transactions"} ELSE {})

CalledOnceAfterLoads ==
    /\ Cardinality(CalculateCalls) <= 1
    /\ CalculateCalls # {} => \A l \in CalculationNeeds : promises[l] = "fulfilled"

\* C10 as stated: in each of the eight price resolvers the calculation
\* callback runs only after every load it depends on is fulfilled, at most
\* once, and gets address, lines, checkout_info, manager[, transactions] in
\* this order.
C10_FixedOrderEverywhere ==
    field \in PassesManager =>
        /\ CalledOnceAfterLoads
        /\ \A i \in CalculateCalls : calls[i].data = CheckoutOrder

\* C10 amended: the calculation callback runs only after every load it
\* depends on is fulfilled and at most once; in the resolvers of the Checkout
\* type it gets address, lines, checkout_info, manager[, transactions] in this
\* order whatever the order of completion, and in the two CheckoutLine
\* resolvers it gets checkout_info, lines, with the manager of the first
\* Promise.all([checkout, manager]).
C10_OrderPerResolver ==
    field \in PassesManager =>
        /\ CalledOnceAfterLoads
        /\ \A i \in CalculateCalls :
             IF field \in LinePriceFields
             THEN /\ calls[i].data = <<"checkout_info", "lines">>
                  /\ calls[i].manager = "manager"
             ELSE /\ calls[i].data = CheckoutOrder
                  /\ calls[i].manager = "manager"

C10_Witness ==
    /\ field = "Checkout.total_balance"
    /\ HasAddress
    /\ stage = "done"
    /\ completed = <<"transactions", "manager", "checkout_info", "lines", "address">>
    /\ Len(calls) = 1
    /\ calls[1].data = <<"address", "lines", "checkout_info", "manager", "transactions">>

\* ------------------------------- SpecAccount: confirmEmailChange
UserPks == {1, 2, 3}
Emails == {"customer@example.com", "staff@example.com",
           "new_email@example.com", "other@example.com"}
FirstNames == [pk \in UserPks |->
                  IF pk = 1 THEN "Leslie" ELSE IF pk = 2 THEN "Jan" ELSE "Kim"]

\* The user the API client of the tests is logged in as (customer_user).
customer_user == 1

NoToken == [kind |-> "none"]

\* The search document of a user holds the words the user is found by: the
\* email and the name.
prepare_user_search_document_value(email, first_name) == {email, first_name}

UserRow(pk, email) ==
    [email |-> email, first_name |-> FirstNames[pk],
     search_document |-> prepare_user_search_document_value(email, FirstNames[pk])]

\* User.email is unique.
InitAccount ==
    /\ users \in {[pk \in UserPks |-> UserRow(pk, e[pk])] :
                     e \in {f \in [UserPks -> Emails] :
                               \A a, b \in UserPks : a # b => f[a] # f[b]}}
    /\ token = NoToken
    /\ response = Unresolved
    /\ sideCalls = << >>
    /\ field = "confirmEmailChange"
    /\ root = DefaultRoot
    /\ context = DefaultContext
    /\ db = DefaultDb
    /\ result = Unresolved
    /\ loads = {}
    /\ PromiseIdle

\* The payload of the tests and create_token(payload, timedelta(hours=1)).
create_token(new_email) ==
    /\ token = NoToken
    /\ new_email # users[customer_user].email
    /\ token' = [kind |-> "token", valid |-> TRUE,
                 old_email |-> users[customer_user].email,
                 new_email |-> new_email,
                 user_pk |-> customer_user]
    /\ UNCHANGED <<users, response, sideCalls>>
    /\ UNCHANGED fieldVars /\ UNCHANGED promiseVars

\* The hour of the token passes.
token_expires ==
    /\ token # NoToken
    /\ token.valid
    /\ response = Unresolved
    /\ token' = [token EXCEPT !.valid = FALSE]
    /\ UNCHANGED <<users, response, sideCalls>>
    /\ UNCHANGED fieldVars /\ UNCHANGED promiseVars

UniqueError ==
    [code |-> "UNIQUE", message |-> "Email is used by other user.",
     field |-> "newEmail"]

InvalidTokenError ==
    [code |-> "INVALID", message |-> "Invalid or expired token.", field |-> "token"]

EmailNeverUsed(us, pk, email) == FALSE
EmailUsedByOtherUser(us, pk, email) ==
    \E other \in UserPks : other # pk /\ us[other].email = email

WithEmailOnly(user, email) == [user EXCEPT !.email = email]
WithEmail(user, email) ==
    [user EXCEPT !.email = email,
                 !.search_document =
                     prepare_user_search_document_value(email, user.first_name)]

\* The mutation, called with the token by the logged-in user.
confirmEmailChange ==
    /\ token # NoToken
    /\ response = Unresolved
    /\ IF ~token.valid
       THEN /\ response' = [user |-> PyNone, errors |-> <<InvalidTokenError>>]
            /\ UNCHANGED <<users, sideCalls>>
       ELSE IF EmailUsedByOtherUser(users, token.user_pk, token.new_email)
       THEN /\ response' = [user |-> PyNone, errors |-> <<UniqueError>>]
            /\ UNCHANGED <<users, sideCalls>>
       ELSE /\ users' = [users EXCEPT ![token.user_pk] = WithEmail(@, token.new_email)]
            /\ sideCalls' = sideCalls \o
                   << [fn |-> "assign_user_gift_cards", user |-> token.user_pk],
                      [fn |-> "match_orders_with_new_user", user |-> token.user_pk] >>
            /\ response' = [user |-> Value([email |-> token.new_email]),
                            errors |-> << >>]
    /\ UNCHANGED token
    /\ UNCHANGED fieldVars /\ UNCHANGED promiseVars

NextAccount ==
    \/ \E e \in Emails : create_token(e)
    \/ token_expires
    \/ confirmEmailChange

SpecAccount == InitAccount /\ [][NextAccount]_vars

\* ------------------------------------------ properties of SpecAccount
Confirmed == response # Unresolved /\ token.valid

OtherUserHas(email) ==
    \E u \in UserPks \ {token.user_pk} : users[u].email = email

CallsOf(fn, pk) ==
    Cardinality({i \in 1..Len(sideCalls) :
                    sideCalls[i].fn = fn /\ sideCalls[i].user = pk})

\* C2: with a valid, unexpired token whose new_email no other user has,
\* confirmEmailChange returns the user with email = new_email, the stored
\* user's search_document contains new_email, and assign_user_gift_cards and
\* match_orders_with_new_user are each called exactly once with that user.
C2_EmailUpdated ==
    (Confirmed /\ ~OtherUserHas(token.new_email)) =>
        /\ response.user = Value([email |-> token.new_email])
        /\ response.errors = << >>
        /\ users[token.user_pk].email = token.new_email
        /\ token.new_email \in users[token.user_pk].search_document
        /\ CallsOf("assign_user_gift_cards", token.user_pk) = 1
        /\ CallsOf("match_orders_with_new_user", token.user_pk) = 1
        /\ Len(sideCalls) = 2

C2_Witness ==
    /\ Confirmed
    /\ token.new_email = "new_email@example.com"
    /\ token.old_email = "customer@example.com"
    /\ response.user = Value([email |-> "new_email@example.com"])
    /\ "new_email@example.com" \in users[customer_user].search_document

\* C3: with a valid token whose new_email is the email of another user,
\* confirmEmailChange returns no user and exactly the error UNIQUE on
\* newEmail, "Email is used by other user.".
C3_EmailUsedByOtherUser ==
    (Confirmed /\ OtherUserHas(token.new_email)) =>
        /\ response.user = PyNone
        /\ response.errors =
             << [code |-> "UNIQUE", field |-> "newEmail",
                 message |-> "Email is used by other user."] >>

C3_Witness ==
    /\ Confirmed
    /\ users[2].email = "staff@example.com"
    /\ token.new_email = "staff@example.com"
    /\ response.user = PyNone
    /\ Len(response.errors) = 1
    /\ users[customer_user].email = token.old_email

====
